---- MODULE Spec2Model ----
(***************************************************************************)
(* Memory-activation core of tesumi (app/services/gnn_processor.py):       *)
(* ExternalMemory (bounded key-value store with usage-based eviction),     *)
(* GNNProcessor.activate_memories, update_memory_with_interaction,         *)
(* _get_memory_states, _update_memory_states, _apply_memory_decay and      *)
(* get_memory_statistics.                                                  *)
(*                                                                         *)
(* Numbers.  Floats are fixed-point integers: cosine similarities and the  *)
(* sigmoid output in units of 1/SimScale, the blended score in units of    *)
(* 1/(10*SimScale), usage in units of 1/UsageOne.  The 1e-8 added to the *)
(* norms by the code only keeps a zero norm from dividing by zero; here a  *)
(* zero norm gives similarity 0, which is what 0/1e-8 is.                  *)
(*                                                                         *)
(* Vectors.  A vector is [dim |-> d, c |-> <<a, b>>]: the vector of R^d    *)
(* whose first two coordinates are a and b and whose others are 0.  The    *)
(* pools hold vectors of integer norm, so cosines are exact.               *)
(*                                                                         *)
(* The network weights are never loaded (torch default initialisation), so *)
(* what SAGEConv, attention and the scoring head compute for a node is an  *)
(* input of the call, drawn from NetPool.  nn.GRUCell is an uninterpreted  *)
(* function: a NodeState is the sequence <<seed, x1, ..., xn>> of the      *)
(* initial state followed by the node embeddings folded into it.           *)
(***************************************************************************)
EXTENDS Integers, Sequences, FiniteSets, TLC

VARIABLES keys, values, usage, current_size, node_memory_states,
          op, args, ret, raised, stage, fed, pre, calls, decay_factor,
          tasks, running

vars == <<keys, values, usage, current_size, node_memory_states,
          op, args, ret, raised, stage, fed, pre, calls, decay_factor,
          tasks, running>>

\* ------------------------------------------------------------------ bounds
memory_size == 2
MaxCalls == 3
MaxTopK == 2
MaxReadK == 2
MaxRand == 1
MaxEdges == 2

\* ------------------------------------------------- program constants
VECTOR_DIMENSION == 384
GNN_HIDDEN_DIM == 128
key_dim == GNN_HIDDEN_DIM
UsageOne == 10000
UsageBump == 1000
LowUsageThreshold == 100
DecayPercent == 95
\* settings.MEMORY_DECAY_FACTOR = 0.95, in units of 1/UsageOne
MEMORY_DECAY_FACTOR == DecayPercent * (UsageOne \div 100)
SimScale == UsageOne \div 10
SimWeight == 7
ActWeight == 3
MaxContext == 3

\* ------------------------------------------------------------ vectors
Vec(d, a, b) == [dim |-> d, c |-> <<a, b>>]
ZeroVec(d) == Vec(d, 0, 0)

Dot(u, v) == u.c[1] * v.c[1] + u.c[2] * v.c[2]

RECURSIVE IsqrtFrom(_, _)
IsqrtFrom(n, r) == IF (r + 1) * (r + 1) > n THEN r ELSE IsqrtFrom(n, r + 1)

Norm(u) == IsqrtFrom(Dot(u, u), 0)

\* similarities / (norm(a) + 1e-8) / (norm(b) + 1e-8), in units of 1/SimScale
CosNoQueryNorm(u, q) ==
    IF Norm(u) = 0 THEN 0 ELSE (Dot(u, q) * SimScale) \div Norm(u)

Cos(u, q) ==
    IF Norm(u) = 0 \/ Norm(q) = 0 THEN 0
    ELSE (Dot(u, q) * SimScale) \div (Norm(u) * Norm(q))

\* ------------------------------------------------------ Python values
PyList(s) == [type |-> "list", items |-> s]
PyNone == [type |-> "NoneType", items |-> <<>>]
PyInt(i) == [type |-> "int", items |-> <<i>>]

\* --------------------------------------------------- ExternalMemory
Slots == 0 .. memory_size - 1

Mem == [keys |-> keys, values |-> values, usage |-> usage,
        current_size |-> current_size]

EmptyMem == [keys |-> [i \in Slots |-> ZeroVec(key_dim)],
             values |-> [i \in Slots |-> ZeroVec(key_dim)],
             usage |-> [i \in Slots |-> 0],
             current_size |-> 0]

\* np.argmin: the first index holding the minimum
ArgminLast(us) ==
    CHOOSE i \in DOMAIN us :
        /\ \A j \in DOMAIN us : us[i] <= us[j]
        /\ \A j \in DOMAIN us : us[j] = us[i] => j <= i

Argmin(us) ==
    CHOOSE i \in DOMAIN us :
        /\ \A j \in DOMAIN us : us[i] <= us[j]
        /\ \A j \in DOMAIN us : us[j] = us[i] => i <= j

\* the slot write() picks
WriteIdxFirst(m) == IF m.current_size < memory_size THEN 0 ELSE Argmin(m.usage)

WriteIdx(m) ==
    IF m.current_size < memory_size THEN m.current_size ELSE Argmin(m.usage)

\* current_size after write() has picked its slot
WriteSizeAlways(m) == m.current_size + 1

WriteSize(m) ==
    IF m.current_size < memory_size THEN m.current_size + 1 ELSE m.current_size

\* write(key, value): the slot and the size are chosen first; the three
\* assignments follow, each numpy row assignment raising ValueError when the
\* shape of its right-hand side is not (key_dim,).
write(m, key, value) ==
    LET idx == WriteIdx(m)
        m0 == [m EXCEPT !.current_size = WriteSize(m)]
        m1 == [m0 EXCEPT !.keys[idx] = key]
        m2 == [m1 EXCEPT !.values[idx] = value]
        m3 == [m2 EXCEPT !.usage[idx] = UsageOne]
    IN  IF key.dim # key_dim THEN [mem |-> m0, ret |-> PyNone, raised |-> TRUE]
        ELSE IF value.dim # key_dim
             THEN [mem |-> m1, ret |-> PyNone, raised |-> TRUE]
             ELSE [mem |-> m3, ret |-> PyInt(idx), raised |-> FALSE]

\* ------------------------------------------------------------ sorting
Min(a, b) == IF a < b THEN a ELSE b

Take(s, k) == SubSeq(s, 1, Min(k, Len(s)))

Perms(n) == {p \in [1 .. n -> 1 .. n] : \A i, j \in 1 .. n : p[i] = p[j] => i = j}

\* np.argsort(scores): ascending; the default sort is not stable, so any
\* order of equal scores can come out
AscOrders(scores) ==
    {p \in Perms(Len(scores)) :
        \A i \in 1 .. Len(scores) - 1 : scores[p[i]] <= scores[p[i + 1]]}

\* np.argsort(scores)[::-1]
DescOrders(scores) ==
    {p \in Perms(Len(scores)) :
        \A i \in 1 .. Len(scores) - 1 : scores[p[i]] >= scores[p[i + 1]]}

\* ------------------------------------------------ ExternalMemory.read
ReadSims(m, query) == [i \in 1 .. m.current_size |-> Cos(m.keys[i - 1], query)]

\* self.usage[top_k_indices] += 0.1
BumpUsageAll(us, idxs) == [i \in DOMAIN us |-> us[i] + UsageBump]

BumpUsageDown(us, idxs) ==
    [i \in DOMAIN us |-> IF i \in idxs THEN us[i] - UsageBump ELSE us[i]]

BumpUsage(us, idxs) ==
    [i \in DOMAIN us |-> IF i \in idxs THEN us[i] + UsageBump ELSE us[i]]

\* one outcome of read(query, k) for the order `p` argsort produced
ReadWith(m, query, k, p) ==
    LET top == Take(p, k)
        idxs == {top[i] - 1 : i \in 1 .. Len(top)}
        sims == ReadSims(m, query)
    IN  [mem |-> [m EXCEPT !.usage = BumpUsage(m.usage, idxs)],
         ret |-> [values |-> [i \in 1 .. Len(top) |-> m.values[top[i] - 1]],
                  similarities |-> [i \in 1 .. Len(top) |-> sims[top[i]]],
                  indices |-> [i \in 1 .. Len(top) |-> top[i] - 1]],
         raised |-> FALSE]

\* return np.zeros((k, self.key_dim)), np.zeros(k)
ReadEmptyNoRows(m, k) ==
    [mem |-> m,
     ret |-> [values |-> <<>>, similarities |-> <<>>, indices |-> <<>>],
     raised |-> FALSE]

ReadEmpty(m, k) ==
    [mem |-> m,
     ret |-> [values |-> [i \in 1 .. k |-> ZeroVec(key_dim)],
              similarities |-> [i \in 1 .. k |-> 0],
              indices |-> <<>>],
     raised |-> FALSE]

readRaisesBeyondSize(m, query, k) ==
    IF k > m.current_size \/ query.dim # key_dim
    THEN {[mem |-> m, ret |-> PyNone, raised |-> TRUE]}
    ELSE {ReadWith(m, query, k, p) : p \in DescOrders(ReadSims(m, query))}

read(m, query, k) ==
    IF m.current_size = 0
    THEN {ReadEmpty(m, k)}
    ELSE IF query.dim # key_dim
         THEN {[mem |-> m, ret |-> PyNone, raised |-> TRUE]}
         ELSE {ReadWith(m, query, k, p) : p \in DescOrders(ReadSims(m, query))}

\* ----------------------------------------- GNNProcessor._apply_memory_decay
\* usage *= settings.MEMORY_DECAY_FACTOR; decay_factor is the setting's value
DecayUsage(u) == (u * decay_factor) \div UsageOne

\* number of slots below index i whose usage is below the threshold
LowBefore(us, i) == Cardinality({j \in DOMAIN us : j < i /\ us[j] < LowUsageThreshold})

LowCount(us) == Cardinality({j \in DOMAIN us : us[j] < LowUsageThreshold})

apply_memory_decayAllLow(m) ==
    LET us == [i \in DOMAIN m.usage |-> DecayUsage(m.usage[i])]
    IN  [m EXCEPT !.usage =
            [i \in DOMAIN us |-> IF us[i] < LowUsageThreshold THEN 0 ELSE us[i]]]

apply_memory_decayClearsSlot(m) ==
    LET us == [i \in DOMAIN m.usage |-> DecayUsage(m.usage[i])]
        zeroed == {i \in DOMAIN us :
                    us[i] < LowUsageThreshold /\ LowBefore(us, i) < LowCount(us) \div 2}
    IN  [m EXCEPT !.usage = [i \in DOMAIN us |-> IF i \in zeroed THEN 0 ELSE us[i]],
                  !.keys = [i \in DOMAIN m.keys |->
                                IF i \in zeroed THEN ZeroVec(key_dim) ELSE m.keys[i]]]

apply_memory_decay(m) ==
    LET us == [i \in DOMAIN m.usage |-> DecayUsage(m.usage[i])]
    IN  [m EXCEPT !.usage =
            [i \in DOMAIN us |->
                IF us[i] < LowUsageThreshold /\ LowBefore(us, i) < LowCount(us) \div 2
                THEN 0 ELSE us[i]]]

\* ------------------------- GNNProcessor.update_memory_with_interaction
update_memory_with_interactionDecayFirst(m, embedding) ==
    LET w == write(apply_memory_decay(m), embedding, embedding)
    IN  w.mem

update_memory_with_interaction(m, embedding) ==
    LET w == write(m, embedding, embedding)
    IN  IF w.raised THEN w.mem ELSE apply_memory_decay(w.mem)

\* -------------------------------------- GNNProcessor.get_memory_statistics
RECURSIVE SumUsage(_, _)
SumUsage(us, i) == IF i \notin DOMAIN us THEN 0 ELSE us[i] + SumUsage(us, i + 1)

get_memory_statisticsByUsage(m, ns) ==
    [total_nodes |-> Cardinality(DOMAIN ns),
     external_memory_usage |-> Cardinality({i \in DOMAIN m.usage : m.usage[i] > 0}),
     external_memory_capacity |-> memory_size,
     average_memory_usage |-> SumUsage(m.usage, 0) \div memory_size]

get_memory_statistics(m, ns) ==
    [total_nodes |-> Cardinality(DOMAIN ns),
     external_memory_usage |-> m.current_size,
     external_memory_capacity |-> memory_size,
     average_memory_usage |-> SumUsage(m.usage, 0) \div memory_size]

\* ---------------------------------------------------------- NodeState
\* torch.zeros(hidden_dim)
ZeroState == <<0>>

\* no hidden state given (None)
NoState == <<>>

\* nn.GRUCell under fixed weights: an uninterpreted function of (x, h)
GRUCell(x, h) == Append(h, x)

\* MemoryGRU.forward
MemoryGRU_forwardNoHidden(x, h) == GRUCell(x, ZeroState)

MemoryGRU_forward(x, h) == GRUCell(x, IF h = NoState THEN ZeroState ELSE h)

\* the state _get_memory_states creates for an id it does not hold:
\* torch.randn(GNN_HIDDEN_DIM), the draw being r
FreshStateZeros(r) == ZeroState

FreshState(r) == <<r>>

\* _get_memory_states, from position i on: ids are looked up in order and an
\* absent id is given a fresh state, which is stored at once
RECURSIVE get_memory_states_from(_, _, _, _)
get_memory_states_from(ns, ids, rnd, i) ==
    IF i > Len(ids) THEN [map |-> ns, states |-> <<>>]
    ELSE LET id == ids[i]
             st == IF id \in DOMAIN ns THEN ns[id] ELSE FreshState(rnd[i])
             ns1 == IF id \in DOMAIN ns THEN ns ELSE (id :> st) @@ ns
             rest == get_memory_states_from(ns1, ids, rnd, i + 1)
         IN  [map |-> rest.map, states |-> <<st>> \o rest.states]

get_memory_states(ns, ids, rnd) == get_memory_states_from(ns, ids, rnd, 1)

\* _update_memory_states, from position i on
RECURSIVE update_memory_states_from(_, _, _, _)
update_memory_states_from(ns, ids, new, i) ==
    IF i > Len(ids) \/ i > Len(new) THEN ns
    ELSE update_memory_states_from(
             [j \in DOMAIN ns \cup {ids[i]} |-> IF j = ids[i] THEN new[i] ELSE ns[j]],
             ids, new, i + 1)

update_memory_statesOnlyThese(ns, ids, new) ==
    update_memory_states_from(<<>>, ids, new, 1)

update_memory_states(ns, ids, new) == update_memory_states_from(ns, ids, new, 1)

\* ------------------------------------------------ activate_memories
NodeIds(cands) == [i \in 1 .. Len(cands) |-> cands[i].id]

\* GraphSAGEMemory.forward, the recurrent update: memory_states is None only
\* when _get_memory_states found no id or failed
ForwardStates(net, states) ==
    [i \in 1 .. Len(net) |->
        MemoryGRU_forward(net[i].x, IF states = <<>> THEN NoState ELSE states[i])]

\* where the call stops: "empty" (line 305), "graph" (torch.tensor of rows of
\* different lengths, line 257), "forward" (SAGEConv on rows that are not
\* VECTOR_DIMENSION + 2 wide, line 318), "similarity" (np.dot of the
\* GNN_HIDDEN_DIM wide embeddings with the query, line 331), or "ok";
\* activate_memories reports "read" when external_memory.read raises
ActivateStageNoDimCheck(cands, query) ==
    IF cands = <<>> THEN "empty"
    ELSE IF query.dim # GNN_HIDDEN_DIM THEN "similarity"
    ELSE "ok"

ActivateStage(cands, query) ==
    IF cands = <<>> THEN "empty"
    ELSE IF \E i, j \in 1 .. Len(cands) : cands[i].embedding.dim # cands[j].embedding.dim
    THEN "graph"
    ELSE IF cands[1].embedding.dim # VECTOR_DIMENSION THEN "forward"
    ELSE IF query.dim # GNN_HIDDEN_DIM THEN "similarity"
    ELSE "ok"

\* return [] of line 306
EmptyResultNone == PyNone

EmptyResult == PyList(<<>>)

\* except Exception: log and return []
OnErrorRaise == [ret |-> PyNone, raised |-> TRUE]

OnError == [ret |-> PyList(<<>>), raised |-> FALSE]

Similarities(net, query) == [i \in 1 .. Len(net) |-> Cos(net[i].comb, query)]

\* 0.7 * similarities + 0.3 * activation_scores, in units of 1/(10*SimScale)
FinalScoresSwapped(sims, net) ==
    [i \in 1 .. Len(net) |-> ActWeight * sims[i] + SimWeight * net[i].act]

FinalScores(sims, net) ==
    [i \in 1 .. Len(net) |-> SimWeight * sims[i] + ActWeight * net[i].act]

\* the annotated copies of the candidates at the positions top
Activated(cands, top, final, sims) ==
    [i \in 1 .. Len(top) |->
        [pos |-> top[i], node |-> cands[top[i]],
         activation_score |-> final[top[i]],
         similarity_score |-> sims[top[i]]]]

\* k=min(3, len(activated_memories))
ContextKFixed(n) == MaxContext

ContextK(n) == Min(MaxContext, n)

\* the outcomes of activate_memories(cands, _, query, top_k) when the network
\* computes net and torch.randn draws rnd
activate_memories(m, ns, cands, query, top_k, net, rnd) ==
    LET st == ActivateStage(cands, query)
        ids == NodeIds(cands)
        g == get_memory_states(ns, ids, rnd)
        new == ForwardStates(net, g.states)
        ns2 == update_memory_states(g.map, ids, new)
        sims == Similarities(net, query)
        final == FinalScores(sims, net)
        Out(mm, nn, r, ss, reached) ==
            [mem |-> mm, ns |-> nn, ret |-> r.ret, raised |-> r.raised,
             stage |-> reached, fed |-> ss]
    IN  CASE st = "empty" ->
                {Out(m, ns, [ret |-> EmptyResult, raised |-> FALSE], <<>>, st)}
          [] st = "graph" -> {Out(m, ns, OnError, <<>>, st)}
          [] st = "forward" -> {Out(m, g.map, OnError, g.states, st)}
          [] st = "similarity" -> {Out(m, ns2, OnError, g.states, st)}
          [] OTHER ->
                UNION {
                    LET activated == Activated(cands, Take(p, top_k), final, sims)
                    IN  {IF r.raised
                         THEN Out(r.mem, ns2, OnError, g.states, "read")
                         ELSE Out(r.mem, ns2,
                                  [ret |-> PyList(activated), raised |-> FALSE],
                                  g.states, st)
                         : r \in read(m, query, ContextK(Len(activated)))}
                    : p \in DescOrders(final)}

\* -------------------------------------------------------------- inputs
Ids == {1, 2}
RandPool == 1 .. MaxRand

KeyPool == {Vec(GNN_HIDDEN_DIM, 3, 4), Vec(GNN_HIDDEN_DIM, 0, 1),
            Vec(VECTOR_DIMENSION, 3, 4)}

ValuePool == {Vec(GNN_HIDDEN_DIM, 0, 1), Vec(VECTOR_DIMENSION, 1, 0)}

QueryPool == {Vec(GNN_HIDDEN_DIM, 3, 4), Vec(VECTOR_DIMENSION, 3, 4)}

Node(i, d) == [id |-> i, embedding |-> Vec(d, 1, 0)]

CandPool == {<<>>,
             <<Node(1, VECTOR_DIMENSION)>>,
             <<Node(1, GNN_HIDDEN_DIM)>>,
             <<Node(1, VECTOR_DIMENSION), Node(2, VECTOR_DIMENSION)>>,
             <<Node(2, VECTOR_DIMENSION), Node(1, GNN_HIDDEN_DIM)>>}

\* what the network can compute for one node: its propagated embedding x
\* (a code), its combined embedding comb and its sigmoid activation act
NetPool == {[x |-> 1, comb |-> Vec(GNN_HIDDEN_DIM, 1, 0), act |-> 500],
            [x |-> 2, comb |-> Vec(GNN_HIDDEN_DIM, -1, 0), act |-> 200]}

\* ------------------------------------------------------------ requests
\* The server runs every request as a coroutine of one asyncio event loop
\* (uvicorn.run of main:app; every route is an `async def`, none hands work
\* to a thread).  A task is one request: its kind, its position and the
\* locals of the call it makes.
Tasks == {1, 2, 3}

IdleTask ==
    [kind |-> "none", pc |-> "idle", cands |-> <<>>, query |-> ZeroVec(key_dim),
     top_k |-> 0, states |-> <<>>, net |-> <<>>, updated |-> FALSE,
     embedding |-> ZeroVec(key_dim), idx |-> 0, low |-> {}, start |-> EmptyMem,
     before |-> EmptyMem]

\* the positions at which a coroutine gives the loop back: before a request
\* is taken, at `await db.execute(...)` ahead of activate_memories, at the
\* awaits that follow the call, and once the response is sent.  No line of
\* gnn_processor.py awaits.
AwaitPointEverywhere(pc) == TRUE

AwaitPoint(pc) == pc \in {"idle", "await_db", "accepted", "respond", "done"}

\* ---------------------------------------------------------- the program
Snapshot == [mem |-> Mem, ns |-> node_memory_states]

InitStore(m) ==
    /\ keys = m.keys
    /\ values = m.values
    /\ usage = m.usage
    /\ current_size = m.current_size

InitRest ==
    /\ node_memory_states = <<>>
    /\ op = "init"
    /\ args = <<>>
    /\ ret = PyNone
    /\ raised = FALSE
    /\ stage = "none"
    /\ fed = <<>>
    /\ pre = Snapshot
    /\ calls = 0
    /\ tasks = [t \in Tasks |-> IdleTask]
    /\ running = 0

InitCommon ==
    /\ InitStore(EmptyMem)
    /\ InitRest

Init == InitCommon /\ decay_factor = MEMORY_DECAY_FACTOR

\* the values of the setting MEMORY_DECAY_FACTOR the environment can give:
\* the default, and one that takes a usage of 1.0 below the threshold at once
LowDecayFactor == LowUsageThreshold \div 2

DecayFactors == {MEMORY_DECAY_FACTOR, LowDecayFactor}

InitDecay == InitCommon /\ decay_factor \in DecayFactors

SetMem(m) ==
    /\ keys' = m.keys
    /\ values' = m.values
    /\ usage' = m.usage
    /\ current_size' = m.current_size

Called(name, a) ==
    /\ calls' = calls + 1
    /\ decay_factor' = decay_factor
    /\ UNCHANGED <<tasks, running>>
    /\ op' = name
    /\ args' = a
    /\ pre' = Snapshot

Write ==
    /\ calls < MaxCalls
    /\ \E key \in KeyPool, value \in ValuePool :
        LET w == write(Mem, key, value)
        IN  /\ Called("write", [key |-> key, value |-> value])
            /\ SetMem(w.mem)
            /\ ret' = w.ret
            /\ raised' = w.raised
            /\ stage' = "none"
            /\ fed' = <<>>
            /\ UNCHANGED node_memory_states

Read ==
    /\ calls < MaxCalls
    /\ \E query \in QueryPool, k \in 0 .. MaxReadK :
        \E r \in read(Mem, query, k) :
            /\ Called("read", [query |-> query, k |-> k])
            /\ SetMem(r.mem)
            /\ ret' = r.ret
            /\ raised' = r.raised
            /\ stage' = "none"
            /\ fed' = <<>>
            /\ UNCHANGED node_memory_states

\* the positions for which the network computes something: none when the
\* call stops before the forward pass
NetPositions(cands, query) ==
    IF ActivateStage(cands, query) \in {"similarity", "ok"}
    THEN 1 .. Len(cands) ELSE {}

\* the positions for which torch.randn is drawn: the first occurrence of
\* each id that has no stored state, when _get_memory_states is reached
RandPositions(ns, cands, query) ==
    IF ActivateStage(cands, query) \in {"empty", "graph"} THEN {}
    ELSE {i \in 1 .. Len(cands) :
            /\ cands[i].id \notin DOMAIN ns
            /\ \A j \in 1 .. i - 1 : cands[j].id # cands[i].id}

Activate ==
    /\ calls < MaxCalls
    /\ \E cands \in CandPool, query \in QueryPool, top_k \in 0 .. MaxTopK :
        \E net \in [NetPositions(cands, query) -> NetPool],
           rnd \in [RandPositions(node_memory_states, cands, query) -> RandPool] :
            \E o \in activate_memories(Mem, node_memory_states, cands, query,
                                       top_k, net, rnd) :
                /\ Called("activate", [cands |-> cands, query |-> query,
                                       top_k |-> top_k])
                /\ SetMem(o.mem)
                /\ node_memory_states' = o.ns
                /\ ret' = o.ret
                /\ raised' = o.raised
                /\ stage' = o.stage
                /\ fed' = o.fed

UpdateInteraction ==
    /\ calls < MaxCalls
    /\ \E embedding \in KeyPool :
        /\ Called("updateInteraction", [embedding |-> embedding])
        /\ SetMem(update_memory_with_interaction(Mem, embedding))
        /\ ret' = PyNone
        /\ raised' = FALSE
        /\ stage' = "none"
        /\ fed' = <<>>
        /\ UNCHANGED node_memory_states

Statistics ==
    /\ calls < MaxCalls
    /\ Called("statistics", <<>>)
    /\ ret' = get_memory_statistics(Mem, node_memory_states)
    /\ raised' = FALSE
    /\ stage' = "none"
    /\ fed' = <<>>
    /\ UNCHANGED <<keys, values, usage, current_size, node_memory_states>>

Next == Write \/ Read \/ Activate \/ UpdateInteraction \/ Statistics

Spec == Init /\ [][Next]_vars

\* the same program under either value of the decay setting
SpecDecay == InitDecay /\ [][Next]_vars

\* ------------------------------------- GNNProcessor.create_graph_data
\* node_id_to_idx: the 0-based position of each candidate id (the last one
\* when an id occurs twice)
NodeIdToIdx(cands) ==
    [id \in {cands[i].id : i \in 1 .. Len(cands)} |->
        (CHOOSE i \in 1 .. Len(cands) :
            /\ cands[i].id = id
            /\ \A j \in 1 .. Len(cands) : cands[j].id = id => j <= i) - 1]

\* the columns of edge_index and the entries of edge_attr built from the
\* edges from position i on
RECURSIVE EdgeColumnsDirected(_, _, _)
EdgeColumnsDirected(idx, edges, i) ==
    IF i > Len(edges) THEN <<>>
    ELSE LET e == edges[i]
         IN  (IF e.source_id \in DOMAIN idx /\ e.target_id \in DOMAIN idx
              THEN <<[src |-> idx[e.source_id], dst |-> idx[e.target_id],
                      weight |-> e.weight]>>
              ELSE <<>>) \o EdgeColumnsDirected(idx, edges, i + 1)

RECURSIVE EdgeColumns(_, _, _)
EdgeColumns(idx, edges, i) ==
    IF i > Len(edges) THEN <<>>
    ELSE LET e == edges[i]
         IN  (IF e.source_id \in DOMAIN idx /\ e.target_id \in DOMAIN idx
              THEN <<[src |-> idx[e.source_id], dst |-> idx[e.target_id],
                      weight |-> e.weight],
                     [src |-> idx[e.target_id], dst |-> idx[e.source_id],
                      weight |-> e.weight]>>
              ELSE <<>>) \o EdgeColumns(idx, edges, i + 1)

\* create_graph_data(memory_nodes, memory_edges): torch.tensor(node_features)
\* raises on rows of different lengths, before any edge is looked at
create_graph_data(cands, edges) ==
    IF cands = <<>> THEN [ret |-> PyList(<<>>), raised |-> FALSE]
    ELSE IF \E i, j \in 1 .. Len(cands) : cands[i].embedding.dim # cands[j].embedding.dim
    THEN [ret |-> PyNone, raised |-> TRUE]
    ELSE [ret |-> PyList(EdgeColumns(NodeIdToIdx(cands), edges, 1)), raised |-> FALSE]

\* the edges a call can be given: between candidate ids and one id that is
\* no candidate's
OutsideId == Cardinality(Ids) + 1

EdgePool ==
    {[source_id |-> a, target_id |-> b, weight |-> w] :
        a \in Ids \cup {OutsideId}, b \in Ids \cup {OutsideId}, w \in {1, 2}}

EdgeLists == UNION {[1 .. n -> EdgePool] : n \in 0 .. MaxEdges}

\* one call of create_graph_data on a processor just constructed
CreateGraph ==
    /\ calls = 0
    /\ \E cands \in CandPool, edges \in EdgeLists :
        LET g == create_graph_data(cands, edges)
        IN  /\ Called("create_graph_data", [cands |-> cands, edges |-> edges])
            /\ ret' = g.ret
            /\ raised' = g.raised
            /\ stage' = "none"
            /\ fed' = <<>>
            /\ UNCHANGED <<keys, values, usage, current_size, node_memory_states>>

SpecGraph == Init /\ [][CreateGraph]_vars

\* ------------------------------------- one decay pass on a given store
\* The stores a pass can meet, on twice the slots: the first current_size
\* slots written (each with a usage that writes, reads and passes produce),
\* the others never written.
PassSlots == 0 .. 2 * memory_size - 1

PassUsages == {0, UsageBump, UsageOne, UsageOne + UsageBump}

PassStores ==
    UNION {
        {[keys |-> [i \in PassSlots |-> IF i < n THEN Vec(key_dim, 3, 4) ELSE ZeroVec(key_dim)],
          values |-> [i \in PassSlots |-> IF i < n THEN Vec(key_dim, 0, 1) ELSE ZeroVec(key_dim)],
          usage |-> [i \in PassSlots |-> IF i < n THEN u[i] ELSE 0],
          current_size |-> n] : u \in [0 .. n - 1 -> PassUsages]}
        : n \in 0 .. 2 * memory_size}

InitPass ==
    /\ \E m \in PassStores : InitStore(m)
    /\ InitRest
    /\ decay_factor \in DecayFactors

\* _apply_memory_decay()
DecayPass ==
    /\ calls = 0
    /\ Called("decay", <<>>)
    /\ SetMem(apply_memory_decay(Mem))
    /\ ret' = PyNone
    /\ raised' = FALSE
    /\ stage' = "none"
    /\ fed' = <<>>
    /\ UNCHANGED node_memory_states

SpecPass == InitPass /\ [][DecayPass]_vars

\* ---------------------------------------------- the program, interleaved
\* The same calls as steps of coroutines: a step is what a call does between
\* two accesses of the shared structures, and the loop passes from one task
\* to another only where the running one awaits.
UnchangedCall == UNCHANGED <<op, args, ret, raised, stage, fed, pre, calls, decay_factor>>

UnchangedMem == UNCHANGED <<keys, values, usage, current_size>>

\* task t may take a step: the loop is free or t holds it
Scheduled(t) == running \in {0, t}

\* the locals of a call are gone when it returns; what stays of a task is
\* what it was asked and what it folded into the NodeStates
AfterCall(rec) ==
    [IdleTask EXCEPT !.kind = rec.kind, !.pc = rec.pc, !.cands = rec.cands,
                     !.net = rec.net, !.updated = rec.updated]

\* task t takes a step that leaves it as rec
Go(t, rec) ==
    /\ tasks' = [tasks EXCEPT ![t] = IF rec.pc \in {"respond", "done"}
                                     THEN AfterCall(rec) ELSE rec]
    /\ running' = IF AwaitPoint(rec.pc) THEN 0 ELSE t
    /\ UnchangedCall

\* requests are numbered as they arrive
Arrives(t) ==
    /\ Scheduled(t)
    /\ tasks[t].pc = "idle"
    /\ \A u \in Tasks : u < t => tasks[u].pc # "idle"

\* a search request: MemoryManager.search_memories up to its first await
StartSearch(t) ==
    /\ Arrives(t)
    /\ \E cands \in CandPool, query \in QueryPool :
        Go(t, [IdleTask EXCEPT !.kind = "search", !.pc = "await_db",
                               !.cands = cands, !.query = query,
                               !.top_k = MaxTopK])
    /\ UnchangedMem
    /\ UNCHANGED node_memory_states

\* an interaction request, up to the call of update_memory_with_interaction
StartUpdate(t) ==
    /\ Arrives(t)
    /\ \E embedding \in KeyPool :
        Go(t, [IdleTask EXCEPT !.kind = "update", !.pc = "accepted",
                               !.embedding = embedding])
    /\ UnchangedMem
    /\ UNCHANGED node_memory_states

TaskStage(t) == ActivateStage(tasks[t].cands, tasks[t].query)

\* activate_memories up to _get_memory_states (lines 304-315)
GetStates(t) ==
    /\ Scheduled(t)
    /\ tasks[t].pc = "await_db"
    /\ UnchangedMem
    /\ IF TaskStage(t) \in {"empty", "graph"}
       THEN /\ Go(t, [tasks[t] EXCEPT !.pc = "respond"])
            /\ UNCHANGED node_memory_states
       ELSE \E rnd \in [RandPositions(node_memory_states, tasks[t].cands,
                                      tasks[t].query) -> RandPool] :
                LET g == get_memory_states(node_memory_states,
                                           NodeIds(tasks[t].cands), rnd)
                IN  /\ node_memory_states' = g.map
                    /\ Go(t, [tasks[t] EXCEPT !.pc = "forward", !.states = g.states])

\* the forward pass (lines 317-321)
Forward(t) ==
    /\ Scheduled(t)
    /\ tasks[t].pc = "forward"
    /\ UnchangedMem
    /\ UNCHANGED node_memory_states
    /\ IF TaskStage(t) = "forward"
       THEN Go(t, [tasks[t] EXCEPT !.pc = "respond"])
       ELSE \E net \in [1 .. Len(tasks[t].cands) -> NetPool] :
                Go(t, [tasks[t] EXCEPT !.pc = "update_states", !.net = net])

\* _update_memory_states (line 324)
UpdateStates(t) ==
    /\ Scheduled(t)
    /\ tasks[t].pc = "update_states"
    /\ UnchangedMem
    /\ node_memory_states' =
            update_memory_states(node_memory_states, NodeIds(tasks[t].cands),
                                 ForwardStates(tasks[t].net, tasks[t].states))
    /\ Go(t, [tasks[t] EXCEPT !.pc = "rank", !.updated = TRUE])

\* scoring, ranking and the context read (lines 326-352)
Rank(t) ==
    /\ Scheduled(t)
    /\ tasks[t].pc = "rank"
    /\ UNCHANGED node_memory_states
    /\ Go(t, [tasks[t] EXCEPT !.pc = "respond"])
    /\ IF TaskStage(t) = "similarity"
       THEN UnchangedMem
       ELSE LET sims == Similarities(tasks[t].net, tasks[t].query)
                final == FinalScores(sims, tasks[t].net)
            IN  \E p \in DescOrders(final) :
                    \E r \in read(Mem, tasks[t].query,
                                  ContextK(Len(Take(p, tasks[t].top_k)))) :
                        SetMem(r.mem)

\* ExternalMemory.write, the choice of the slot (lines 154-158)
WriteScan(t) ==
    /\ Scheduled(t)
    /\ tasks[t].pc = "accepted"
    /\ current_size' = WriteSize(Mem)
    /\ UNCHANGED <<keys, values, usage, node_memory_states>>
    /\ Go(t, [tasks[t] EXCEPT !.pc = "write_store", !.idx = WriteIdx(Mem),
                              !.start = Mem])

\* ExternalMemory.write, the assignments (lines 160-163)
WriteStore(t) ==
    /\ Scheduled(t)
    /\ tasks[t].pc = "write_store"
    /\ UNCHANGED <<current_size, node_memory_states>>
    /\ IF tasks[t].embedding.dim # key_dim
       THEN /\ UNCHANGED <<keys, values, usage>>
            /\ Go(t, [tasks[t] EXCEPT !.pc = "respond"])
       ELSE /\ keys' = [keys EXCEPT ![tasks[t].idx] = tasks[t].embedding]
            /\ values' = [values EXCEPT ![tasks[t].idx] = tasks[t].embedding]
            /\ usage' = [usage EXCEPT ![tasks[t].idx] = UsageOne]
            /\ Go(t, [tasks[t] EXCEPT !.pc = "decay_scale"])

\* _apply_memory_decay, usage *= factor (line 426)
DecayScale(t) ==
    /\ Scheduled(t)
    /\ tasks[t].pc = "decay_scale"
    /\ usage' = [i \in DOMAIN usage |-> DecayUsage(usage[i])]
    /\ UNCHANGED <<keys, values, current_size, node_memory_states>>
    /\ Go(t, [tasks[t] EXCEPT !.pc = "decay_where", !.before = Mem])

\* _apply_memory_decay, np.where(usage < 0.01) (lines 429-430)
DecayWhere(t) ==
    /\ Scheduled(t)
    /\ tasks[t].pc = "decay_where"
    /\ UnchangedMem
    /\ UNCHANGED node_memory_states
    /\ LET low == {i \in DOMAIN usage : usage[i] < LowUsageThreshold}
       IN  Go(t, [tasks[t] EXCEPT !.pc = IF low = {} THEN "respond" ELSE "decay_zero",
                                  !.low = low])

\* _apply_memory_decay, usage[low[:len(low) // 2]] = 0 (lines 432-433)
DecayZero(t) ==
    /\ Scheduled(t)
    /\ tasks[t].pc = "decay_zero"
    /\ usage' = [i \in DOMAIN usage |->
                    IF /\ i \in tasks[t].low
                       /\ Cardinality({j \in tasks[t].low : j < i})
                            < Cardinality(tasks[t].low) \div 2
                    THEN 0 ELSE usage[i]]
    /\ UNCHANGED <<keys, values, current_size, node_memory_states>>
    /\ Go(t, [tasks[t] EXCEPT !.pc = "respond"])

\* the awaits after the call, and the response
Respond(t) ==
    /\ Scheduled(t)
    /\ tasks[t].pc = "respond"
    /\ UnchangedMem
    /\ UNCHANGED node_memory_states
    /\ Go(t, [tasks[t] EXCEPT !.pc = "done"])

NextConc ==
    \E t \in Tasks :
        \/ StartSearch(t)
        \/ StartUpdate(t)
        \/ GetStates(t)
        \/ Forward(t)
        \/ UpdateStates(t)
        \/ Rank(t)
        \/ WriteScan(t)
        \/ WriteStore(t)
        \/ DecayScale(t)
        \/ DecayWhere(t)
        \/ DecayZero(t)
        \/ Respond(t)

\* the requests of the server under either value of the decay setting
SpecConc == InitDecay /\ [][NextConc]_vars

\* ================================================================ claims
WellTypedWrite == args.key.dim = key_dim /\ args.value.dim = key_dim

OtherSlotsUnchanged(v) ==
    \A i \in Slots \ {v} :
        /\ keys[i] = pre.mem.keys[i]
        /\ values[i] = pre.mem.values[i]
        /\ usage[i] = pre.mem.usage[i]

SlotHolds(v) ==
    /\ keys[v] = args.key
    /\ values[v] = args.value
    /\ usage[v] = UsageOne

\* C1: the occupied count of the external memory never exceeds its capacity
\* memory_size, whatever calls have been made.
C1_CapacityBound == current_size \in 0 .. memory_size

C1_Witness ==
    /\ op = "write"
    /\ pre.mem.current_size = memory_size
    /\ current_size = memory_size

\* C2: a write of a key and value of dimension H into a full store replaces
\* exactly the slot that held the minimum usage before the write, the lowest
\* index among the slots tied for it; the count stays N and every other slot
\* keeps its key, value and usage.
C2_EvictsFirstMinimum ==
    (op = "write" /\ WellTypedWrite /\ pre.mem.current_size = memory_size) =>
        \E v \in Slots :
            /\ \A j \in Slots : pre.mem.usage[v] <= pre.mem.usage[j]
            /\ \A j \in Slots : pre.mem.usage[j] = pre.mem.usage[v] => v <= j
            /\ ret = PyInt(v)
            /\ ~raised
            /\ SlotHolds(v)
            /\ current_size = memory_size
            /\ OtherSlotsUnchanged(v)

C2_Witness ==
    /\ op = "write"
    /\ WellTypedWrite
    /\ pre.mem.current_size = memory_size
    /\ \E i, j \in Slots : i # j /\ pre.mem.usage[i] = pre.mem.usage[j]
    /\ keys # pre.mem.keys

\* C3: a write of a key and value of dimension H into a store holding fewer
\* than N slots fills the slot whose index is the occupied count, sets its
\* usage to 1.0, adds one to the count, returns that index and leaves the
\* other slots alone.
C3_AppendsToNextFreeSlot ==
    (op = "write" /\ WellTypedWrite /\ pre.mem.current_size < memory_size) =>
        /\ ret = PyInt(pre.mem.current_size)
        /\ ~raised
        /\ SlotHolds(pre.mem.current_size)
        /\ current_size = pre.mem.current_size + 1
        /\ OtherSlotsUnchanged(pre.mem.current_size)

C3_Witness ==
    /\ op = "write"
    /\ WellTypedWrite
    /\ pre.mem.current_size = 1
    /\ ret = PyInt(1)

Items == ret.items

IsRankedList == op = "activate" /\ ret.type = "list"

\* the entries are distinct candidates of the call
EntriesAreCandidates ==
    /\ \A i \in 1 .. Len(Items) :
        /\ Items[i].pos \in 1 .. Len(args.cands)
        /\ Items[i].node = args.cands[Items[i].pos]
    /\ \A i, j \in 1 .. Len(Items) : Items[i].pos = Items[j].pos => i = j

ContractInputs ==
    /\ \A i \in 1 .. Len(args.cands) : args.cands[i].embedding.dim = VECTOR_DIMENSION
    /\ args.query.dim = VECTOR_DIMENSION

\* C4: for a non-empty candidate list and a query, all of the dimension D the
\* contract gives them, activate returns exactly min(topK, len(candidates))
\* entries, each one a candidate and no candidate position twice.
C4_LengthIsMinTopK ==
    (op = "activate" /\ args.cands # <<>> /\ ContractInputs) =>
        /\ ret.type = "list"
        /\ Len(Items) = Min(args.top_k, Len(args.cands))
        /\ EntriesAreCandidates

\* C5 as stated: the returned list is in descending order of blended score
\* and entries of equal score keep the order of the input list.
C5_DescendingTiesInInputOrder ==
    IsRankedList =>
        \A i, j \in 1 .. Len(Items) :
            i < j =>
                /\ Items[i].activation_score >= Items[j].activation_score
                /\ (Items[i].activation_score = Items[j].activation_score
                        => Items[i].pos < Items[j].pos)

\* C5 amended: the returned list is in descending order of blended score
\* (the order of entries of equal score is not fixed).
C5_Descending ==
    IsRankedList =>
        /\ EntriesAreCandidates
        /\ \A i, j \in 1 .. Len(Items) :
            i < j => Items[i].activation_score >= Items[j].activation_score

C5_Witness ==
    /\ IsRankedList
    /\ Len(Items) = 2
    /\ Items[1].pos = 2
    /\ Items[1].activation_score > Items[2].activation_score

C7_EmptyCandidates ==
    (op = "activate" /\ args.cands = <<>>) =>
        /\ ret = PyList(<<>>)
        /\ ~raised
        /\ Snapshot = pre

C7_Witness ==
    /\ op = "activate"
    /\ args.cands = <<>>
    /\ pre.mem.current_size > 0
    /\ DOMAIN pre.ns # {}

HasBadEmbedding ==
    \E i \in 1 .. Len(args.cands) : args.cands[i].embedding.dim # VECTOR_DIMENSION

\* C8 as stated: with a candidate whose embedding is not of dimension D the
\* call still returns min(topK, len(candidates)) entries.
C8_BadEmbeddingStillRanked ==
    (op = "activate" /\ HasBadEmbedding) =>
        /\ ret.type = "list"
        /\ Len(Items) = Min(args.top_k, Len(args.cands))

\* C8 amended: with a candidate whose embedding is not of dimension D the
\* call is abandoned: it returns the empty list, whatever topK, and raises
\* nothing.
C8_BadEmbeddingAbortsBatch ==
    (op = "activate" /\ HasBadEmbedding) =>
        /\ ret = PyList(<<>>)
        /\ ~raised
        /\ stage \in {"graph", "forward"}

C8_Witness ==
    /\ op = "activate"
    /\ HasBadEmbedding
    /\ Len(args.cands) = 2
    /\ args.top_k >= 1
    /\ args.query.dim = GNN_HIDDEN_DIM
    /\ ret = PyList(<<>>)

\* C9: no failure inside activate reaches the caller: whichever step fails,
\* the call returns the empty list.
C9_FailuresReturnEmpty ==
    op = "activate" =>
        /\ ~raised
        /\ stage \in {"graph", "forward", "similarity", "read"} => ret = PyList(<<>>)

C9_Witness ==
    /\ op = "activate"
    /\ stage = "similarity"
    /\ args.top_k >= 1
    /\ ret = PyList(<<>>)
    /\ ~raised

\* the positions of the identities the call references for the first time,
\* when the recurrent update has run
FirstReferenced ==
    IF op = "activate" /\ stage \in {"similarity", "ok", "read"}
    THEN {i \in 1 .. Len(args.cands) : args.cands[i].id \notin DOMAIN pre.ns}
    ELSE {}

\* C10 as stated: the state fed to the recurrent update for an identity that
\* had no NodeState is the zero vector.
C10_FirstStateIsZero == \A i \in FirstReferenced : fed[i] = ZeroState

\* C10 amended: the state fed to the recurrent update for an identity that
\* had no NodeState is a fresh random draw (torch.randn), not the zero
\* vector.
C10_FirstStateIsRandomDraw ==
    \A i \in FirstReferenced :
        /\ fed[i] \in {<<r>> : r \in RandPool}
        /\ fed[i] # ZeroState

C10_Witness ==
    /\ FirstReferenced # {}
    /\ stage = "ok"
    /\ \E i \in 1 .. Len(args.cands) : args.cands[i].id \in DOMAIN pre.ns

\* the codes of the node embeddings the network can produce
NetX == {n.x : n \in NetPool}

\* the state of position i's identity before the call, if it had one
HadState(i) == args.cands[i].id \in DOMAIN pre.ns

C12_ReadOfEmptyStore ==
    (op = "read" /\ pre.mem.current_size = 0) =>
        /\ ~raised
        /\ Len(ret.values) = args.k
        /\ Len(ret.similarities) = args.k
        /\ \A i \in 1 .. args.k :
            ret.values[i] = ZeroVec(key_dim) /\ ret.similarities[i] = 0
        /\ Mem = pre.mem

C12_Witness ==
    /\ op = "read"
    /\ pre.mem.current_size = 0
    /\ args.k = MaxReadK
    /\ args.query.dim # key_dim

ReadOfOccupiedStore ==
    op = "read" /\ pre.mem.current_size > 0 /\ args.query.dim = key_dim

\* the pairs returned are those of distinct occupied slots, no slot left out
\* is more similar to the query than a slot returned, and the pairs are in
\* descending order of similarity
ReturnsMostSimilar ==
    /\ Len(ret.similarities) = Len(ret.values)
    /\ Len(ret.indices) = Len(ret.values)
    /\ \A i \in 1 .. Len(ret.values) :
        /\ ret.indices[i] \in 0 .. pre.mem.current_size - 1
        /\ ret.values[i] = pre.mem.values[ret.indices[i]]
        /\ ret.similarities[i] * Norm(pre.mem.keys[ret.indices[i]]) * Norm(args.query)
                = Dot(pre.mem.keys[ret.indices[i]], args.query) * SimScale
    /\ \A i, j \in 1 .. Len(ret.values) :
        /\ ret.indices[i] = ret.indices[j] => i = j
        /\ i < j => ret.similarities[i] >= ret.similarities[j]
    /\ \A s \in 0 .. pre.mem.current_size - 1 :
        (\A i \in 1 .. Len(ret.indices) : ret.indices[i] # s) =>
            \A i \in 1 .. Len(ret.similarities) :
                Dot(pre.mem.keys[s], args.query) * SimScale
                    <= ret.similarities[i] * Norm(pre.mem.keys[s]) * Norm(args.query)

\* C13 as stated: read with a query of dimension H on a store with an
\* occupied slot returns exactly k pairs, the k most similar in descending
\* order.
C13_ReturnsExactlyK ==
    ReadOfOccupiedStore =>
        /\ ~raised
        /\ Len(ret.values) = args.k
        /\ ReturnsMostSimilar

\* C13 amended: it returns min(k, occupied count) pairs, the most similar in
\* descending order.
C13_ReturnsMinKOccupied ==
    ReadOfOccupiedStore =>
        /\ ~raised
        /\ Len(ret.values) = Min(args.k, pre.mem.current_size)
        /\ ReturnsMostSimilar

C13_Witness ==
    /\ ReadOfOccupiedStore
    /\ pre.mem.current_size = 2
    /\ args.k = 1
    /\ ret.indices = <<1>>
    /\ \E i, j \in Slots : Cos(pre.mem.keys[i], args.query) # Cos(pre.mem.keys[j], args.query)

\* the slots a read returned
Returned == IF op = "read" /\ ~raised THEN {ret.indices[i] : i \in DOMAIN ret.indices} ELSE {}

\* C14: read adds exactly 0.1 to the usage of each slot it returns and changes
\* nothing else.
C14_ReadBumpsReturnedOnly ==
    op = "read" =>
        /\ keys = pre.mem.keys
        /\ values = pre.mem.values
        /\ current_size = pre.mem.current_size
        /\ \A i \in Slots :
            usage[i] = pre.mem.usage[i] + (IF i \in Returned THEN UsageBump ELSE 0)

C14_Witness ==
    /\ op = "read"
    /\ pre.mem.current_size = 2
    /\ Cardinality(Returned) = 1
    /\ usage # pre.mem.usage

GoodInteraction == op = "updateInteraction" /\ args.embedding.dim = key_dim

\* the usage array the decay pass of the call starts from: the one the
\* call's write leaves
BeforeDecay == write(pre.mem, args.embedding, args.embedding).mem.usage

Decayed(i) == (BeforeDecay[i] * decay_factor) \div UsageOne

LowSlots == {i \in Slots : Decayed(i) < LowUsageThreshold}

\* C15: after a decay pass with factor d, of the slots whose usage times d is
\* below 0.01, taken in index order, the first floor(|L|/2) have usage 0 and
\* every other slot has its former usage times d.
C15_DecayZeroesFirstHalf ==
    GoodInteraction =>
        \A i \in Slots :
            usage[i] =
                IF i \in LowSlots
                   /\ Cardinality({j \in LowSlots : j < i}) < Cardinality(LowSlots) \div 2
                THEN 0 ELSE Decayed(i)

C15_Witness ==
    /\ GoodInteraction
    /\ \E i \in LowSlots : Decayed(i) > 0 /\ usage[i] = 0
    /\ \E i \in LowSlots : usage[i] = Decayed(i)

\* C16: updateInteraction(embedding), for an embedding of the store's
\* dimension and the decay factor 0.95, writes (embedding, embedding) and
\* then runs one decay pass: on return the written slot holds
\* key = value = embedding with usage 0.95, every other slot keeps its key
\* and value and has its usage decayed once (or zeroed by that pass).
C16_WriteThenOneDecay ==
    (GoodInteraction /\ decay_factor = MEMORY_DECAY_FACTOR) =>
        \E v \in Slots :
            /\ keys[v] = args.embedding
            /\ values[v] = args.embedding
            /\ usage[v] = (UsageOne * DecayPercent) \div 100
            /\ \A i \in Slots \ {v} :
                /\ keys[i] = pre.mem.keys[i]
                /\ values[i] = pre.mem.values[i]
                /\ usage[i] \in {0, (pre.mem.usage[i] * DecayPercent) \div 100}

C16_Witness ==
    /\ GoodInteraction
    /\ decay_factor = MEMORY_DECAY_FACTOR
    /\ usage[WriteIdx(pre.mem)] = (UsageOne * DecayPercent) \div 100
    /\ \E i \in Slots \ {WriteIdx(pre.mem)} :
            pre.mem.usage[i] > 0 /\ usage[i] < pre.mem.usage[i] /\ usage[i] > 0

\* the slots whose usage a call raised by the read bump
Bumped == {i \in Slots : usage[i] = pre.mem.usage[i] + UsageBump}

\* C17 as stated: activate and statistics leave the external memory exactly
\* as it was.
C17_OnlyUpdateInteractionMutates ==
    op \in {"activate", "statistics"} => Mem = pre.mem

\* C17 amended: statistics leaves the external memory as it was; activate
\* leaves keys, values and the occupied count as they were and adds 0.1 to
\* the usage of at most min(3, len(returned list)) occupied slots.
C17_ActivateOnlyBumpsUsage ==
    /\ op = "statistics" => Mem = pre.mem
    /\ op = "activate" =>
        /\ keys = pre.mem.keys
        /\ values = pre.mem.values
        /\ current_size = pre.mem.current_size
        /\ \A i \in Slots : usage[i] = pre.mem.usage[i] \/ i \in Bumped
        /\ Cardinality(Bumped) = Min(Min(MaxContext, Len(Items)), current_size)
        /\ \A i \in Bumped : i < current_size

C17_Witness ==
    /\ op = "activate"
    /\ Bumped # {}
    /\ \E i \in Slots : i < current_size /\ i \notin Bumped

\* a full external memory to compare with: as every reachable store gives
\* the lists this one gives, any two stores give the same lists
OtherMem ==
    [keys |-> [i \in Slots |-> Vec(key_dim, 0, 1)],
     values |-> [i \in Slots |-> Vec(key_dim, 3, 4)],
     usage |-> [i \in Slots |-> UsageOne - i],
     current_size |-> memory_size]

\* the ranked lists activate can return from external memory m, the network
\* computing net and torch.randn drawing rnd
RankedLists(m, net, rnd) ==
    {o.ret : o \in activate_memories(m, pre.ns, args.cands, args.query,
                                     args.top_k, net, rnd)}

\* C18: the ranked list activate returns does not depend on the external
\* memory: with the same candidates, query, topK, NodeState map and network
\* outputs, the call returns the same lists from another external memory.
C18_RankingIgnoresExternalMemory ==
    op = "activate" =>
        LET outcomes ==
                {[here |-> RankedLists(pre.mem, net, rnd),
                  there |-> RankedLists(OtherMem, net, rnd)] :
                    net \in [NetPositions(args.cands, args.query) -> NetPool],
                    rnd \in [RandPositions(pre.ns, args.cands, args.query) -> RandPool]}
        IN  /\ \A o \in outcomes : o.there = o.here
            /\ \E o \in outcomes : ret \in o.here

C18_Witness ==
    /\ op = "activate"
    /\ stage = "ok"
    /\ Len(Items) > 1
    /\ pre.mem.current_size \in 1 .. memory_size - 1
    /\ Mem # pre.mem

\* task t has read the NodeStates of its candidates and not yet written them
InSection(t) == tasks[t].pc \in {"forward", "update_states"}

TaskIds(t) == {tasks[t].cands[i].id : i \in 1 .. Len(tasks[t].cands)}

\* the tasks that have written the NodeState of id, and what each folded in
Writers(id) == {t \in Tasks : tasks[t].updated /\ id \in TaskIds(t)}

XOf(t, id) ==
    LET i == CHOOSE i \in 1 .. Len(tasks[t].cands) : tasks[t].cands[i].id = id
    IN  tasks[t].net[i].x

\* C19: of two activate calls in flight that share a candidate identity, none
\* reads the identity's NodeState between the other's read and write of it,
\* and the stored state is the seed with the updates of all the calls that
\* wrote it folded in one after the other, in some order.
C19_NoLostUpdate ==
    /\ \A a, b \in Tasks :
        (a # b /\ InSection(a) /\ InSection(b)) => TaskIds(a) \cap TaskIds(b) = {}
    /\ \A id \in DOMAIN node_memory_states :
        LET w == Writers(id)
            n == Cardinality(w)
        IN  /\ Len(node_memory_states[id]) = n + 1
            /\ \E p \in [1 .. n -> w] :
                /\ \A i, j \in 1 .. n : p[i] = p[j] => i = j
                /\ \A i \in 1 .. n : node_memory_states[id][i + 1] = XOf(p[i], id)

C19_Witness ==
    \E a, b \in Tasks :
        /\ a # b
        /\ tasks[a].pc = "respond" /\ tasks[a].updated
        /\ tasks[b].pc = "respond" /\ tasks[b].updated
        /\ TaskIds(a) \cap TaskIds(b) # {}
        /\ \E id \in TaskIds(a) \cap TaskIds(b) : Len(node_memory_states[id]) = 3

\* task t is inside the eviction scan of write or inside the decay pass
MidPass(t) == tasks[t].pc \in {"write_store", "decay_where", "decay_zero"}

EndsWrite(t) == tasks[t].pc = "write_store" /\ tasks'[t].pc # "write_store"

EndsDecay(t) ==
    /\ tasks[t].pc \in {"decay_where", "decay_zero"}
    /\ tasks'[t].pc = "respond"

ReadBackStep ==
    /\ op = "write" /\ ~raised
    /\ op' = "read" /\ args'.query = args.key /\ args'.k = 1

\* the occupied slots whose key points the way K does
SameDirection(m, K) == {i \in Slots : i < m.current_size /\ Cos(m.keys[i], K) = SimScale}

\* C21 as stated: read(K, 1) right after write(K, V) returns V with
\* similarity 1.0, whatever the store held before.
C21_ReadBackReturnsWritten ==
    [][ReadBackStep =>
            /\ ~raised'
            /\ ret'.values = <<args.value>>
            /\ ret'.similarities = <<SimScale>>]_vars

\* C21 amended: read(K, 1) right after a successful write(K, V) returns, with
\* similarity 1.0, the value of an occupied slot whose key has the direction
\* of K; it is V when the written slot is the only such slot.
C21_ReadBackReturnsSameDirection ==
    [][ReadBackStep =>
            /\ ~raised'
            /\ ret'.similarities = <<SimScale>>
            /\ \E i \in SameDirection(Mem, args.key) : ret'.values = <<values[i]>>
            /\ SameDirection(Mem, args.key) = {ret.items[1]}
                    => ret'.values = <<args.value>>]_vars

\* a read(K, 1) has returned similarity 1.0 from a store of two slots that
\* both held K, one of them just written with another value
C21_Witness ==
    /\ op = "read" /\ ~raised /\ args.k = 1
    /\ ret.similarities = <<SimScale>>
    /\ Cardinality(SameDirection(pre.mem, args.query)) > 1
    /\ \E i, j \in SameDirection(pre.mem, args.query) :
        /\ pre.mem.usage[i] = UsageOne
        /\ pre.mem.values[i] # pre.mem.values[j]

\* C22: in every reachable state the usage of every slot is at least 0.
C22_UsageNonNegative == \A i \in Slots : usage[i] >= 0

\* a usage that a read had raised above 1.0 has been decayed, next to a slot
\* of usage 0
C22_Witness ==
    /\ op = "updateInteraction"
    /\ \E i \in Slots : pre.mem.usage[i] > UsageOne /\ usage[i] < pre.mem.usage[i]
    /\ \E i \in Slots : usage[i] = 0

\* C23: statistics() changes no state and reports the number of identities
\* held in the NodeState map, the occupied slot count and the capacity N.
C23_StatisticsReportsCounts ==
    op = "statistics" =>
        /\ Mem = pre.mem
        /\ node_memory_states = pre.ns
        /\ ret.total_nodes = Cardinality(DOMAIN node_memory_states)
        /\ ret.external_memory_usage = current_size
        /\ ret.external_memory_capacity = memory_size

\* statistics of a processor that tracks an identity and holds an occupied
\* slot whose usage is 0
C23_Witness ==
    /\ op = "statistics"
    /\ ret.total_nodes > 0
    /\ ret.external_memory_usage > 0
    /\ \E i \in Slots : i < current_size /\ usage[i] = 0

\* the input edges of the call with both endpoints among the candidates
InsideEdges ==
    {i \in 1 .. Len(args.edges) :
        /\ args.edges[i].source_id \in DOMAIN NodeIdToIdx(args.cands)
        /\ args.edges[i].target_id \in DOMAIN NodeIdToIdx(args.cands)}

PosOf(id) == NodeIdToIdx(args.cands)[id]

Column(a, b, w) == [src |-> a, dst |-> b, weight |-> w]

\* C24: the edge index holds, for every input edge with both endpoints in the
\* candidate set, the pair of positions and the mirrored pair with the edge's
\* weight; it holds nothing else, and every position is in 0..n-1.
C24_EdgeIndexMirrored ==
    (op = "create_graph_data" /\ ~raised) =>
        LET cols == {Items[k] : k \in 1 .. Len(Items)}
        IN  /\ \A i \in InsideEdges :
                LET e == args.edges[i]
                IN  /\ Column(PosOf(e.source_id), PosOf(e.target_id), e.weight) \in cols
                    /\ Column(PosOf(e.target_id), PosOf(e.source_id), e.weight) \in cols
            /\ \A c \in cols :
                \E i \in InsideEdges :
                    LET e == args.edges[i]
                    IN  c \in {Column(PosOf(e.source_id), PosOf(e.target_id), e.weight),
                               Column(PosOf(e.target_id), PosOf(e.source_id), e.weight)}
            /\ Len(Items) = 2 * Cardinality(InsideEdges)
            /\ \A c \in cols : c.src \in 0 .. Len(args.cands) - 1
                            /\ c.dst \in 0 .. Len(args.cands) - 1

\* an edge between two different candidates and an edge that leaves the
\* candidate set, given together
C24_Witness ==
    /\ op = "create_graph_data" /\ ~raised
    /\ Len(args.edges) = 2
    /\ Cardinality(InsideEdges) = 1
    /\ \E i \in InsideEdges : args.edges[i].source_id # args.edges[i].target_id
    /\ Len(Items) = 2

\* the store the decay pass of the call starts from
BeforePass == write(pre.mem, args.embedding, args.embedding).mem

\* C25: a decay pass changes usage only: every key, every value and the
\* occupied count are after the pass what they were before it, also for the
\* slots whose usage the pass sets to 0.
C25_DecayKeepsKeysValuesCount ==
    GoodInteraction =>
        /\ keys = BeforePass.keys
        /\ values = BeforePass.values
        /\ current_size = BeforePass.current_size

\* the pass has zeroed the usage of an occupied slot that keeps its key
C25_Witness ==
    /\ GoodInteraction
    /\ \E i \in Slots :
        /\ i < current_size
        /\ BeforePass.usage[i] > 0 /\ usage[i] = 0
        /\ keys[i] = BeforePass.keys[i] /\ keys[i] # ZeroVec(key_dim)

\* the occupied slots whose usage the pass has multiplied to below 0.01
OccupiedLow ==
    {i \in DOMAIN usage : i < pre.mem.current_size
                          /\ DecayUsage(pre.mem.usage[i]) < LowUsageThreshold}

\* those of them that held a usage above 0 and now hold 0
OccupiedZeroed == {i \in OccupiedLow : DecayUsage(pre.mem.usage[i]) > 0 /\ usage[i] = 0}

\* C26: in one decay pass, if m occupied slots have a decayed usage below
\* 0.01, at most ceil(m / 2) occupied slots have their usage set to 0,
\* whatever the number of never-written slots.
C26_AtMostHalfOccupiedZeroed ==
    op = "decay" => Cardinality(OccupiedZeroed) <= (Cardinality(OccupiedLow) + 1) \div 2

\* C27: when the write inside updateInteraction fails (an embedding whose
\* dimension is not H), nothing reaches the caller and the external memory
\* is left as it was: occupied count, keys, values and usage.
C27_FailedUpdateLeavesStore ==
    (op = "updateInteraction" /\ args.embedding.dim # key_dim) =>
        /\ ~raised
        /\ Mem = pre.mem

\* C28: when activate returns the empty list because a step failed, the
\* NodeState map is what it was before the call.
C28_FailureLeavesNodeStates ==
    (op = "activate" /\ stage \in {"graph", "forward", "similarity", "read"}) =>
        node_memory_states = pre.ns

CandidateIds == {args.cands[i].id : i \in 1 .. Len(args.cands)}

\* C29: no call removes an identity from the NodeState map; activate leaves
\* the state of every identity outside its candidate set as it was, and the
\* other calls leave the whole map as it was.
C29_TrackedIdentitiesOnlyGrow ==
    /\ DOMAIN pre.ns \subseteq DOMAIN node_memory_states
    /\ op = "activate" =>
        \A id \in DOMAIN pre.ns \ CandidateIds : node_memory_states[id] = pre.ns[id]
    /\ op # "activate" => node_memory_states = pre.ns

\* an activate call has changed the state of its candidate and kept the
\* state of a tracked identity that is not among its candidates
C29_Witness ==
    /\ op = "activate"
    /\ \E id \in DOMAIN pre.ns \ CandidateIds : node_memory_states[id] = pre.ns[id]
    /\ \E id \in DOMAIN pre.ns \cap CandidateIds : node_memory_states[id] # pre.ns[id]

====
